---- MODULE Spec2Model ----
(***************************************************************************)
(* ribooster backend: the session and authentication broker of             *)
(* backend/app/main.py over the JSON-backed store of backend/app/storage.py *)
(* and the company / organization rows of the SQL database.                *)
(*                                                                         *)
(* The server runs `workers` gunicorn processes (gunicorn_conf.py).  Each  *)
(* process imports storage.py, which loads state.json into its own         *)
(* module-level SESSIONS map; every save writes that process's whole map   *)
(* back to state.json.  The SQL database is shared by the processes.       *)
(* A request is handled by one process, chosen by the load balancer.       *)
(*                                                                         *)
(* Record shapes are the ones main.py constructs and reads (SessionModel,  *)
(* DBCompany.license_*, DBCompany.features_json).                          *)
(***************************************************************************)
EXTENDS Integers, Sequences, FiniteSets, TLC

\* Python None
Nil == "None"

(***************************************************************************)
(* Program constants                                                       *)
(***************************************************************************)
\* main.py:236  ttl = 8 * 3600
ttl == 8 * 3600
\* main.py:237  refresh_threshold = 20 * 60
refresh_threshold == 20 * 60
\* main.py:528 and main.py:622  expires_at = now + 8 * 3600
LOGIN_TTL == 8 * 3600
\* gunicorn_conf.py:2
workers == 2
\* main.py:158-160 (the deployment sets both environment variables)
ADMIN_ACCESS_CODE == "Admin"
ADMIN_USERNAME == "admin"
ADMIN_PASSWORD == "s3cret"
\* main.py:162-166
DEFAULT_SERVICE_FLAGS == [k \in {"projects.backup", "ai.helpdesk", "textsql"} |-> TRUE]

(***************************************************************************)
(* Bounds of the model                                                     *)
(***************************************************************************)
\* number of sessions ever issued (uuid4 tokens are fresh: 1, 2, ...)
MaxTokens == 1
\* number of clock advances
MaxTicks == 2
MaxThreads == 2
\* the advances of the clock between requests that run at the same time
MaxThreadTicks == 1

Workers == 1..workers
\* the clock at start, and the amounts it advances by between requests:
\* 7 h 40 min (a session then has exactly the refresh threshold left) and
\* 7 h 50 min (it has half the threshold left)
Epoch == 100 * ttl
Steps == {ttl - refresh_threshold, ttl - (refresh_threshold \div 2)}

\* license period ends an administrator enters: 0, one that has passed, one
\* that is far ahead
EndPast == Epoch - ttl
EndLate == Epoch + 1000 * ttl
LicenseEnds == {0, EndPast, EndLate}
\* a period-end that passes while the model runs
EndSoon == Epoch + ttl

OrgId == "org_1"
CompanyId == "comp_1"
CompanyCode == "ACME-1"

(***************************************************************************)
(* Strings: str.lower() and str.strip() on the strings the model uses      *)
(***************************************************************************)
lower(s) ==
    CASE s = "Admin" -> "admin"
      [] s = "ADMIN" -> "admin"
      [] s = "ACME-1" -> "acme-1"
      [] s = "Bob" -> "bob"
      [] s = "Scheduled Environment Access Notice" -> "scheduled environment access notice"
      [] s = "Invalid Username" -> "invalid username"
      [] s = "Invalid password" -> "invalid password"
      [] OTHER -> s

strip(s) ==
    CASE s = " " -> ""
      [] s = " Alice Smith" -> "Alice Smith"
      [] OTHER -> s

(***************************************************************************)
(* JSON feature maps: a function from the keys present to booleans         *)
(***************************************************************************)
EmptyMap == [k \in {} |-> TRUE]

\* dict.get(key, False)
dict_get(m, k) == IF k \in DOMAIN m THEN m[k] ELSE FALSE

\* dict.update(other) / {**m, **other}
dict_update(m, other) ==
    [k \in (DOMAIN m) \cup (DOMAIN other) |-> IF k \in DOMAIN other THEN other[k] ELSE m[k]]

VARIABLES
    now,            \* int(time.time())
    ticks,          \* number of clock advances so far
    SESSIONS,       \* storage.SESSIONS of each worker process: token -> Session
    STATE_FILE,     \* the "sessions" object of state.json
    issued,         \* number of tokens generated so far
    DBCompany,      \* the row of table companies
    DBOrganization, \* the row of table organizations
    resp,           \* the request just handled and its response
    METRICS,        \* storage.METRICS of each worker process, for the organization
    METRICS_FILE,   \* the "metrics" object of state.json, for the organization
    last_access,    \* history: token -> time of its creation or last successful
                    \* validation
    revoked,        \* history: the tokens a logout has revoked
    threads         \* the position of each request thread inside require_session
                    \* and logout, when the steps of a request are told apart

vars == <<now, ticks, SESSIONS, STATE_FILE, issued, DBCompany, DBOrganization, resp,
          METRICS, METRICS_FILE, last_access, revoked, threads>>

(***************************************************************************)
(* storage.py: the session map of one process and state.json               *)
(***************************************************************************)
\* a Python dict keyed by token: a function whose domain is the keys present
NoSessions == [t \in {} |-> Nil]

\* storage.get_session: SESSIONS.get(token) is not None
has_session(S, token) == token \in DOMAIN S

\* storage.save_session: SESSIONS[sess.token] = sess (then save_state)
save_session(S, sess) ==
    [t \in (DOMAIN S) \cup {sess.token} |-> IF t = sess.token THEN sess ELSE S[t]]

\* storage.delete_session: del SESSIONS[token] when present (then save_state)
delete_session(S, token) == [t \in (DOMAIN S) \ {token} |-> S[t]]

\* models.MetricCounters(): the counters of an organization, as far as login
\* writes them
NoCounters == [total_requests |-> 0, per_route |-> [r \in {} |-> 0]]

\* a record_request that counts the request but not its route
record_request_total_only(mc, route) == [mc EXCEPT !.total_requests = @ + 1]

\* storage.record_request(org_id, route) on the counters mc of the organization
\* (METRICS.setdefault(org_id, MetricCounters())), then save_state
record_request(mc, route) ==
    [total_requests |-> mc.total_requests + 1,
     per_route |-> [r \in (DOMAIN mc.per_route) \cup {route} |->
                      IF r = route
                      THEN (IF r \in DOMAIN mc.per_route THEN mc.per_route[r] ELSE 0) + 1
                      ELSE mc.per_route[r]]]

(***************************************************************************)
(* main.py: authorization middleware                                       *)
(***************************************************************************)
SessionCtx(s) ==
    [token |-> s.token, user_id |-> s.user_id, username |-> s.username,
     display_name |-> s.display_name, is_admin |-> s.is_admin,
     org_id |-> s.org_id, company_id |-> s.company_id]

\* the result of a dependency: the HTTP error raised (status 200: none), the
\* context returned, the process's session map afterwards and whether
\* state.json was written
Outcome(status, detail, ctx, S, saved) ==
    [status |-> status, detail |-> detail, ctx |-> ctx, sessions |-> S, saved |-> saved]

\* a refresh that also restarts the session's life
refreshed_recreated(s, t) == [s EXCEPT !.expires_at = t + ttl, !.created_at = t]

\* a refresh that extends the session from its old expiry
refreshed_from_expiry(s, t) == [s EXCEPT !.expires_at = @ + ttl]

\* the sliding refresh of _session_from_token: the session after the refresh
refreshed(s, t) == [s EXCEPT !.expires_at = t + ttl]

\* whether _session_from_token treats the session as expired at time t
is_expired(s, t) == s.expires_at # 0 /\ s.expires_at < t

\* a refresh that also fires when exactly the threshold remains
needs_refresh_at_threshold(s, t) ==
    LET remaining == IF s.expires_at # 0 THEN s.expires_at - t ELSE ttl
    IN  remaining <= refresh_threshold

\* whether _session_from_token refreshes the (unexpired) session at time t
needs_refresh(s, t) ==
    LET remaining == IF s.expires_at # 0 THEN s.expires_at - t ELSE ttl
    IN  remaining < refresh_threshold

\* _session_from_token(token) in a process whose session map is S, at time t
session_from_token(S, token, t) ==
    IF ~has_session(S, token)
    THEN Outcome(401, "Invalid session", Nil, S, FALSE)
    ELSE
    LET s == S[token]
    IN  IF is_expired(s, t)
        THEN Outcome(401, "Session expired", Nil, delete_session(S, token), TRUE)
        ELSE IF needs_refresh(s, t)
        THEN Outcome(200, "", SessionCtx(s), save_session(S, refreshed(s, t)), TRUE)
        ELSE Outcome(200, "", SessionCtx(s), S, FALSE)

\* the Authorization headers a client sends: none, one that is not
\* "Bearer <token>" (another scheme, another number of parts), "Bearer <token>"
Headers == {"missing", "basic", "bearer"}

\* require_session(Authorization)
require_session(S, hdr, token, t) ==
    IF hdr = "missing"
    THEN Outcome(401, "Missing Authorization header", Nil, S, FALSE)
    ELSE IF hdr # "bearer"
    THEN Outcome(401, "Invalid Authorization header", Nil, S, FALSE)
    ELSE session_from_token(S, token, t)

\* a require_admin that forgets the is_admin test
require_admin_unnarrowed(S, hdr, token, t) == require_session(S, hdr, token, t)

\* require_admin(ctx = Depends(require_session))
require_admin(S, hdr, token, t) ==
    LET a == require_session(S, hdr, token, t)
    IN  IF a.status # 200 THEN a
        ELSE IF ~a.ctx.is_admin
        THEN [a EXCEPT !.status = 403, !.detail = "Admin access required", !.ctx = Nil]
        ELSE a

\* require_org_user(ctx = Depends(require_session))
require_org_user(S, hdr, token, t) ==
    LET a == require_session(S, hdr, token, t)
    IN  IF a.status # 200 THEN a
        ELSE IF a.ctx.is_admin
        THEN [a EXCEPT !.status = 403, !.detail = "Org user required", !.ctx = Nil]
        ELSE IF a.ctx.org_id = Nil \/ a.ctx.company_id = Nil
        THEN [a EXCEPT !.status = 400, !.detail = "Missing org/company on session", !.ctx = Nil]
        ELSE a

(***************************************************************************)
(* main.py: rows -> domain objects                                         *)
(***************************************************************************)
\* _company_from_db: allowed_users = [str(u).strip().lower() for u in data
\* if str(u).strip()]
normalize_allowed_users(raw) ==
    LET nonblank(u) == strip(u) # ""
        kept == SelectSeq(raw, nonblank)
    IN  [i \in 1..Len(kept) |-> lower(strip(kept[i]))]

\* _company_from_db(db_company), as far as login reads the result
company_from_db(row) ==
    [company_id |-> row.company_id, org_id |-> row.org_id, code |-> row.code,
     base_url |-> row.base_url, rib_company_code |-> row.rib_company_code,
     allowed_users |-> normalize_allowed_users(row.allowed_users_json)]

\* _get_org_company_by_code: WHERE companies.code == code (exact match)
code_matches(row, code) == row.code = code

(***************************************************************************)
(* rib_client.py / main.py: the remote login and its failures              *)
(***************************************************************************)
\* The text of a failure is a sequence of fragments; "p in text.lower()" holds
\* when a fragment, lowered, is p.
text_contains(text, p) == \E i \in 1..Len(text) : lower(text[i]) = p

\* a classification that looks for the access notice first
rib_login_error_notice_first(text) ==
    IF text_contains(text, "scheduled environment access notice")
    THEN [status |-> 503,
          detail |-> "RIB login failed: The target RIB 4.0 environment is currently not available outside its scheduled access window. Please try again later or contact your RIB implementation manager."]
    ELSE IF text_contains(text, "invalid_grant") \/ text_contains(text, "invalid username")
            \/ text_contains(text, "invalid password")
    THEN [status |-> 401,
          detail |-> "RIB login failed: Invalid username/password. Please try again."]
    ELSE [status |-> 401,
          detail |-> "RIB login failed: We couldn't sign you in to the RIB server right now. Please verify your credentials and try again, or contact support if the issue persists."]

\* _rib_login_error(exc): the HTTPException raised for the failure text
rib_login_error(text) ==
    IF text_contains(text, "invalid_grant") \/ text_contains(text, "invalid username")
       \/ text_contains(text, "invalid password")
    THEN [status |-> 401,
          detail |-> "RIB login failed: Invalid username/password. Please try again."]
    ELSE IF text_contains(text, "scheduled environment access notice")
    THEN [status |-> 503,
          detail |-> "RIB login failed: The target RIB 4.0 environment is currently not available outside its scheduled access window. Please try again later or contact your RIB implementation manager."]
    ELSE [status |-> 401,
          detail |-> "RIB login failed: We couldn't sign you in to the RIB server right now. Please verify your credentials and try again, or contact support if the issue persists."]

\* _jwt_payload(tok): the claims of the access tokens the remote system hands
\* out; {} for a token that does not decode
jwt_payload(tok) ==
    CASE tok = "jwt.given" -> [k \in {"given_name", "name"} |->
                                 IF k = "given_name" THEN "Al" ELSE "Alice Smith"]
      [] tok = "jwt.name" -> [k \in {"name", "sub"} |->
                                 IF k = "name" THEN "Alice Smith" ELSE "u-17"]
      [] tok = "jwt.blank" -> [k \in {"given_name", "name", "email"} |->
                                 IF k = "given_name" THEN " "
                                 ELSE IF k = "name" THEN "Cher" ELSE "cher@acme.io"]
      [] tok = "jwt.handle" -> [k \in {"unique_name", "preferred_username", "email"} |->
                                 IF k = "unique_name" THEN ""
                                 ELSE IF k = "preferred_username" THEN "carol"
                                 ELSE "carol@acme.io"]
      [] tok = "jwt.mail" -> [k \in {"email", "sub"} |->
                                 IF k = "email" THEN "dan@acme.io" ELSE "u-18"]
      [] tok = "jwt.padded" -> [k \in {"name", "sub"} |->
                                 IF k = "name" THEN " Alice Smith" ELSE "u-17"]
      [] OTHER -> EmptyMap

\* v.split(" ")[0]
first_token(v) ==
    CASE v = "Alice Smith" -> "Alice"
      [] v = " Alice Smith" -> ""
      [] v = " " -> ""
      [] OTHER -> v

\* " " in v
has_space(v) == v \in {"Alice Smith", " Alice Smith", " "}

\* _display_from_jwt(tok, fallback)
display_from_jwt(tok, fallback) ==
    LET pl == jwt_payload(tok)
        usable(k) == k \in DOMAIN pl /\ strip(pl[k]) # ""
        hits == SelectSeq(<<"given_name", "name", "unique_name", "preferred_username",
                            "email", "sub">>, usable)
    IN  IF hits = <<>> THEN fallback
        ELSE IF hits[1] = "name" /\ has_space(pl[hits[1]])
        THEN strip(first_token(pl[hits[1]]))
        ELSE strip(pl[hits[1]])

\* what Auth.login does when it is called: it returns a RIBSession (the token,
\* its expiry, the role) or raises an exception with the text
Raised(text) ==
    [ok |-> FALSE, access_token |-> "", exp_ts |-> 0, secure_client_role |-> "",
     text |-> text]
NoRemote == Raised(<<>>)
RemoteOutcomes ==
    {[ok |-> TRUE, access_token |-> "jwt.name", exp_ts |-> Epoch + 3600,
      secure_client_role |-> "role-1", text |-> <<>>],
     Raised(<<"RIB login failed 400", "invalid_grant">>),
     Raised(<<"Scheduled Environment Access Notice">>),
     Raised(<<"Read timed out">>)}

\* more of the exceptions Auth.login raises: the remote system's answers with
\* another credentials signal, with two signals at once, a token that is not a
\* JWT, a connection that fails
RemoteFailures ==
    {Raised(<<"RIB login failed 401", "Invalid Username">>),
     Raised(<<"RIB login failed 400", "Invalid password">>),
     Raised(<<"RIB login failed 400", "Scheduled Environment Access Notice", "invalid_grant">>),
     Raised(<<"Invalid JWT returned">>),
     Raised(<<"Connection refused">>)}

(***************************************************************************)
(* main.py: login                                                          *)
(***************************************************************************)
\* an optional value: <<>> is None, <<x>> is x
None == <<>>
Some(x) == <<x>>

\* an administrator's session that expires when it is created
admin_session_expiring_at_creation(token, username, t) ==
    [token |-> token, user_id |-> <<"admin", username>>, username |-> username,
     display_name |-> "ribooster admin", is_admin |-> TRUE, org_id |-> Nil,
     company_id |-> Nil, created_at |-> t, expires_at |-> t,
     rib_session |-> None]

\* the Session the admin branch of login builds
admin_session(token, username, t) ==
    [token |-> token, user_id |-> <<"admin", username>>, username |-> username,
     display_name |-> "ribooster admin", is_admin |-> TRUE, org_id |-> Nil,
     company_id |-> Nil, created_at |-> t, expires_at |-> t + LOGIN_TTL,
     rib_session |-> None]

\* a tenant session that lacks its company
tenant_session_without_company(token, username, org_id, company, rib, t) ==
    [token |-> token, user_id |-> <<org_id, username>>, username |-> username,
     display_name |-> display_from_jwt(rib.access_token, username), is_admin |-> FALSE,
     org_id |-> org_id, company_id |-> Nil, created_at |-> t,
     expires_at |-> t + LOGIN_TTL,
     rib_session |-> Some([access_token |-> rib.access_token, exp_ts |-> rib.exp_ts,
                           secure_client_role |-> rib.secure_client_role,
                           host |-> company.base_url,
                           company_code |-> company.rib_company_code,
                           username |-> username])]

\* the Session the tenant branch of login builds
tenant_session(token, username, org_id, company, rib, t) ==
    [token |-> token, user_id |-> <<org_id, username>>, username |-> username,
     display_name |-> display_from_jwt(rib.access_token, username), is_admin |-> FALSE,
     org_id |-> org_id, company_id |-> company.company_id, created_at |-> t,
     expires_at |-> t + LOGIN_TTL,
     rib_session |-> Some([access_token |-> rib.access_token, exp_ts |-> rib.exp_ts,
                           secure_client_role |-> rib.secure_client_role,
                           host |-> company.base_url,
                           company_code |-> company.rib_company_code,
                           username |-> username])]

\* what login does: the response status and detail, the session to store,
\* whether Auth.login was called, whether the license flag is flipped
LoginResult(status, detail, session, remote_called, flip) ==
    [status |-> status, detail |-> detail, session |-> session,
     remote_called |-> remote_called, flip |-> flip]

\* a license gate that writes the flag for an ended period and goes by the
\* flag as it was stored
license_gate_forgiving(row, t) ==
    LET expired == row.license_current_period_end # 0 /\ row.license_current_period_end < t
    IN  [flip |-> expired, deny |-> ~row.license_active]

\* the license gate of login (main.py 553-563): "flip" is the write of
\* license_active = False, "deny" the 403
license_gate(row, t) ==
    LET expired == row.license_current_period_end # 0 /\ row.license_current_period_end < t
        lic_active == IF expired THEN FALSE ELSE row.license_active
    IN  [flip |-> expired, deny |-> ~lic_active \/ expired]

\* an allow-list gate that compares the username as it was typed
allow_list_denies_case_sensitive(company, username) ==
    /\ company.allowed_users # <<>>
    /\ \A i \in 1..Len(company.allowed_users) :
           lower(company.allowed_users[i]) # username

\* the allow-list gate of login (main.py 544-551)
allow_list_denies(company, username) ==
    /\ company.allowed_users # <<>>
    /\ \A i \in 1..Len(company.allowed_users) :
           lower(company.allowed_users[i]) # lower(username)

\* a tenant branch that looks at the license before the allow-list
tenant_login_license_first(row, org_id, username, remote, token, t) ==
    LET company == company_from_db(row)
        gate == license_gate(row, t)
    IN  IF gate.deny
        THEN LoginResult(403, "License inactive or expired", None, FALSE, gate.flip)
        ELSE IF allow_list_denies(company, username)
        THEN LoginResult(403, "User is not allowed for this company code", None, FALSE, FALSE)
        ELSE IF ~remote.ok
        THEN LoginResult(rib_login_error(remote.text).status,
                         rib_login_error(remote.text).detail, None, TRUE, FALSE)
        ELSE LoginResult(200, "",
                         Some(tenant_session(token, username, org_id, company,
                                             remote, t)),
                         TRUE, FALSE)

\* the tenant branch of login, after the login code resolved to the row
tenant_login(row, org_id, username, remote, token, t) ==
    LET company == company_from_db(row)
        gate == license_gate(row, t)
    IN  IF allow_list_denies(company, username)
        THEN LoginResult(403, "User is not allowed for this company code", None, FALSE, FALSE)
        ELSE IF gate.deny
        THEN LoginResult(403, "License inactive or expired", None, FALSE, gate.flip)
        ELSE IF ~remote.ok
        THEN LoginResult(rib_login_error(remote.text).status,
                         rib_login_error(remote.text).detail, None, TRUE, gate.flip)
        ELSE LoginResult(200, "",
                         Some(tenant_session(token, username, org_id, company,
                                             remote, t)),
                         TRUE, gate.flip)

\* an admin branch that tells an unknown username from a wrong password
admin_login_enumerating(username, password, token, t) ==
    IF username # ADMIN_USERNAME
    THEN LoginResult(401, "Unknown admin user", None, FALSE, FALSE)
    ELSE IF password # ADMIN_PASSWORD
    THEN LoginResult(401, "Invalid admin credentials", None, FALSE, FALSE)
    ELSE LoginResult(200, "", Some(admin_session(token, username, t)), FALSE, FALSE)

\* the admin branch of login (main.py 510-537)
admin_login(username, password, token, t) ==
    IF ADMIN_USERNAME = "" \/ ADMIN_PASSWORD = ""
    THEN LoginResult(500, "Admin credentials not configured", None, FALSE, FALSE)
    ELSE IF username # ADMIN_USERNAME \/ password # ADMIN_PASSWORD
    THEN LoginResult(401, "Invalid admin credentials", None, FALSE, FALSE)
    ELSE LoginResult(200, "", Some(admin_session(token, username, t)), FALSE, FALSE)

\* login(payload): payload = [company_code, username, password]
login(payload, row, org_id, remote, token, t) ==
    LET company_code == strip(payload.company_code)
        username == strip(payload.username)
        password == payload.password
    IN  IF company_code = "" \/ username = "" \/ password = ""
        THEN LoginResult(400, "Missing fields", None, FALSE, FALSE)
        ELSE IF lower(company_code) = lower(ADMIN_ACCESS_CODE)
        THEN admin_login(username, password, token, t)
        ELSE IF ~code_matches(row, company_code)
        THEN LoginResult(404, "Unknown company code", None, FALSE, FALSE)
        ELSE tenant_login(row, org_id, username, remote, token, t)

(***************************************************************************)
(* routes/auth.py, core/security.py: the admin token login                 *)
(***************************************************************************)
\* settings.ADMIN_USER_MAP: username -> password
ADMIN_USER_MAP == [u \in {ADMIN_USERNAME} |-> ADMIN_PASSWORD]

\* create_admin_token(username) at time t: the claims of the signed token
create_admin_token(username, t) ==
    [sub |-> username, is_admin |-> TRUE, iat |-> t, exp |-> t + 7 * 24 * 3600]

\* _do_admin_login(access_code, username, password) at time t
do_admin_login(access_code, username, password, t) ==
    LET known == IF username \in DOMAIN ADMIN_USER_MAP THEN ADMIN_USER_MAP[username]
                 ELSE Nil
    IN  IF lower(access_code) # lower(ADMIN_ACCESS_CODE)
        THEN [status |-> 403, detail |-> "Invalid access code", token |-> None]
        ELSE IF known # password
        THEN [status |-> 401, detail |-> "Invalid credentials", token |-> None]
        ELSE [status |-> 200, detail |-> "",
              token |-> Some(create_admin_token(username, t))]

(***************************************************************************)
(* main.py: the feature / license gate                                     *)
(***************************************************************************)
GateResult(status, detail, flip) == [status |-> status, detail |-> detail, flip |-> flip]

\* the company-level feature check of _ensure_feature (main.py 441-454)
company_feature_denies(company_features, feature_key) ==
    company_features # EmptyMap /\ ~dict_get(company_features, feature_key)

\* an organization-level check that never denies (the company's flag decides)
org_feature_ignored(org_features, feature_key) == FALSE

\* the organization-level feature check of _ensure_feature (main.py 472-486)
org_feature_denies(org_features, feature_key) ==
    ~dict_get(dict_update(DEFAULT_SERVICE_FLAGS, org_features), feature_key)

\* a license check that looks at the period end only, not at the stored flag
feature_license_gate_period_only(comp, t) ==
    LET expired == comp.license_current_period_end # 0 /\ comp.license_current_period_end < t
    IN  [flip |-> expired, deny |-> expired]

\* the license check of _ensure_feature (main.py 458-470)
feature_license_gate(comp, t) ==
    LET expired == comp.license_current_period_end # 0 /\ comp.license_current_period_end < t
        license_active == IF expired THEN FALSE ELSE comp.license_active
    IN  [flip |-> expired, deny |-> ~license_active]

\* _ensure_feature(ctx, feature_key, db) with comp and org the rows found
ensure_feature(ctx, feature_key, comp, org, t) ==
    IF ctx.org_id = Nil
    THEN GateResult(400, "Org missing", FALSE)
    ELSE IF ctx.company_id # Nil /\ ctx.company_id = comp.company_id
            /\ company_feature_denies(comp.features_json, feature_key)
    THEN GateResult(403, "Feature not enabled for company", FALSE)
    ELSE IF ctx.company_id = Nil \/ ctx.company_id # comp.company_id
    THEN GateResult(400, "Company not found", FALSE)
    ELSE IF feature_license_gate(comp, t).deny
    THEN GateResult(403, "Company code license inactive", feature_license_gate(comp, t).flip)
    ELSE IF ctx.org_id # org.org_id
    THEN GateResult(400, "Org not found", FALSE)
    ELSE IF org_feature_denies(org.features_json, feature_key)
    THEN GateResult(403, "Feature not enabled for org", FALSE)
    ELSE GateResult(200, "", FALSE)

(***************************************************************************)
(* main.py: administrator routes that change the rows                      *)
(***************************************************************************)
\* AdminUpdateCompanyRequest: each field is None or a value
CompanyPayload(allowed_users, features, active, current_period_end) ==
    [allowed_users |-> allowed_users, features |-> features, active |-> active,
     current_period_end |-> current_period_end]

\* _license_end(plan, start_ts)
license_end(plan, start_ts) ==
    IF plan = "yearly" THEN start_ts + 365 * 24 * 3600
    ELSE IF plan = "monthly" THEN start_ts + 30 * 24 * 3600
    ELSE start_ts + 14 * 24 * 3600

\* AdminPaymentRequest: the fields that reach the company's row
PaymentRequest(payment_date, plan) == [payment_date |-> payment_date, plan |-> plan]

\* what admin_create_payment writes to the company's row (main.py 965-979)
create_payment(comp, payload) ==
    [comp EXCEPT
       !.license_active = TRUE,
       !.license_current_period_end = license_end(payload.plan, payload.payment_date)]

\* an update that takes a period end in the future as a renewal and switches
\* the license on
update_company_renewing(c, payload) ==
    [c EXCEPT
       !.allowed_users_json =
           IF payload.allowed_users # None THEN payload.allowed_users[1] ELSE @,
       !.features_json =
           IF payload.features # None THEN dict_update(@, payload.features[1]) ELSE @,
       !.license_active =
           IF payload.active # None THEN payload.active[1]
           ELSE IF payload.current_period_end # None THEN TRUE ELSE @,
       !.license_current_period_end =
           IF payload.current_period_end # None THEN payload.current_period_end[1] ELSE @]

\* the body of admin_update_company (main.py 911-938)
update_company(c, payload) ==
    [c EXCEPT
       !.allowed_users_json =
           IF payload.allowed_users # None THEN payload.allowed_users[1] ELSE @,
       !.features_json =
           IF payload.features # None THEN dict_update(@, payload.features[1]) ELSE @,
       !.license_active = IF payload.active # None THEN payload.active[1] ELSE @,
       !.license_current_period_end =
           IF payload.current_period_end # None THEN payload.current_period_end[1] ELSE @]

\* the body of admin_update_org (main.py 877-895), feature flags only
update_org(o, features) ==
    [o EXCEPT !.features_json = IF features # None THEN dict_update(@, features[1]) ELSE @]

(***************************************************************************)
(* The request just handled                                                *)
(***************************************************************************)
NoPayload == [company_code |-> "", username |-> "", password |-> ""]

Response(op, w, status, detail, token, hdr, payload, remote_called, remote, key) ==
    [op |-> op, worker |-> w, status |-> status, detail |-> detail, token |-> token,
     hdr |-> hdr, payload |-> payload, remote_called |-> remote_called,
     remote |-> remote, key |-> key, credential |-> None]

\* a response of a route that takes a bearer token
RouteResponse(op, w, status, detail, token, hdr, key) ==
    Response(op, w, status, detail, token, hdr, NoPayload, FALSE, NoRemote, key)

NoResponse == RouteResponse("none", 0, 0, "", 0, "missing", "")

(***************************************************************************)
(* Inputs                                                                  *)
(***************************************************************************)
\* login requests: the administrator realm (right credentials, wrong password,
\* unknown username), the tenant realm (the company's code, the same code in
\* another letter case), and a request with a blank field for each field
Payload(code, username, password) ==
    [company_code |-> code, username |-> username, password |-> password]

AdminLogins ==
    {Payload("admin", "admin", "s3cret"), Payload("admin", "admin", "bad"),
     Payload("admin", "bob", "s3cret")}
\* the same at the admin token login, and one with another access code
AdminTokenLogins == AdminLogins \cup {Payload("ACME-1", "admin", "s3cret")}
TenantLogins == {Payload("ACME-1", "bob", "pw"), Payload("acme-1", "bob", "pw"),
                 Payload("ZETA-9", "bob", "pw")}
\* a user the allow-list <<" ", "Bob">> does not name, and one it names in another
\* letter case than the normalised entry
OtherTenantLogins == {Payload("ACME-1", "carol", "pw"), Payload("ACME-1", "Bob", "pw")}
BlankLogins ==
    {Payload(" ", "bob", "pw"), Payload("ACME-1", " ", "pw"), Payload("ACME-1", "bob", "")}
LoginPayloads == AdminLogins \cup TenantLogins \cup BlankLogins

\* the keys the gated routes ask for: list_helpdesk_conversations / helpdesk_chat,
\* list_projects / start_backup
RouteKeys == {"ai.helpdesk", "projects.backup"}

\* license edits an administrator makes
LicensePayloads ==
    {CompanyPayload(None, None, Some(b), None) : b \in BOOLEAN}
    \cup {CompanyPayload(None, None, None, Some(e)) : e \in LicenseEnds}

\* what an administrator does about a license that has run out: a new period
\* end (or the old one again), the flag switched on, a payment for a year
RenewalPayloads ==
    {CompanyPayload(None, None, None, Some(EndLate)),
     CompanyPayload(None, None, None, Some(EndPast)),
     CompanyPayload(None, None, Some(TRUE), None)}
PaymentRequests ==
    {PaymentRequest(Epoch, "yearly")}

\* allow-list edits an administrator makes
AllowListPayloads ==
    {CompanyPayload(Some(u), None, None, None) :
        u \in {<<>>, <<" ", "Bob">>, <<" ">>}}

\* feature edits an administrator makes
FeaturePayloads ==
    {CompanyPayload(None, Some([k \in {"ai.helpdesk"} |-> b]), None, None) : b \in BOOLEAN}

\* the tokens a client can present: 0 is a string that was never issued
Presentable == 0..issued

(***************************************************************************)
(* Initial state: the processes have just imported storage.py with an      *)
(* empty state.json; the database holds one organization and its company,  *)
(* created through admin_create_org.                                       *)
(***************************************************************************)
\* the request threads of a worker process: the routes are plain functions,
\* which the server runs in a pool of threads
Threads == 1..MaxThreads

\* a thread that handles no request
IdleThread == [pc |-> "idle", worker |-> 0, token |-> 0, s |-> None, t |-> 0]

InitCompany ==
    [company_id |-> CompanyId, org_id |-> OrgId, code |-> CompanyCode,
     base_url |-> "https://rib.example/itwo40/services", rib_company_code |-> "999",
     allowed_users_json |-> <<>>, features_json |-> DEFAULT_SERVICE_FLAGS,
     license_active |-> TRUE, license_current_period_end |-> EndLate]

InitOrganization == [org_id |-> OrgId, features_json |-> DEFAULT_SERVICE_FLAGS]

Init ==
    /\ now = Epoch
    /\ ticks = 0
    /\ SESSIONS = [w \in Workers |-> NoSessions]
    /\ STATE_FILE = NoSessions
    /\ issued = 0
    /\ DBCompany = InitCompany
    /\ DBOrganization = InitOrganization
    /\ resp = NoResponse
    /\ METRICS = [w \in Workers |-> NoCounters]
    /\ METRICS_FILE = NoCounters
    /\ last_access = EmptyMap
    /\ revoked = {}
    /\ threads = [th \in Threads |-> IdleThread]

(***************************************************************************)
(* Actions                                                                 *)
(***************************************************************************)
\* time passes between requests
Tick ==
    /\ ticks < MaxTicks
    /\ \E d \in Steps : now' = now + d
    /\ ticks' = ticks + 1
    /\ resp' = NoResponse
    /\ UNCHANGED <<threads, SESSIONS, STATE_FILE, issued, DBCompany, DBOrganization,
                   METRICS, METRICS_FILE, last_access, revoked>>

\* a worker process is started again: storage.py is imported, load_state()
\* reads state.json into the module's maps and saves them back
Restart ==
    \E w \in Workers :
        /\ SESSIONS[w] # STATE_FILE \/ METRICS[w] # METRICS_FILE
        /\ SESSIONS' = [SESSIONS EXCEPT ![w] = STATE_FILE]
        /\ METRICS' = [METRICS EXCEPT ![w] = METRICS_FILE]
        /\ resp' = NoResponse
        /\ UNCHANGED <<threads, now, ticks, STATE_FILE, issued, DBCompany, DBOrganization,
                       METRICS_FILE, last_access, revoked>>

\* the effect of a request on the process's maps and on state.json:
\* save_state() writes all the maps of the process that calls it
StoreState(w, S, M, saved) ==
    /\ SESSIONS' = [SESSIONS EXCEPT ![w] = S]
    /\ METRICS' = [METRICS EXCEPT ![w] = M]
    /\ STATE_FILE' = IF saved THEN S ELSE STATE_FILE
    /\ METRICS_FILE' = IF saved THEN M ELSE METRICS_FILE

\* the effect of a dependency on the process's sessions and on state.json
StoreSessions(w, S, saved) == StoreState(w, S, METRICS[w], saved)

\* history: the token was created or successfully validated now
Accessed(token) ==
    /\ last_access' = (token :> now) @@ last_access
    /\ UNCHANGED revoked

\* history: the request's token was successfully validated if the dependency
\* got past require_session
Validation(a, token) ==
    IF a.status \in {200, 403, 400} THEN Accessed(token)
    ELSE UNCHANGED <<last_access, revoked>>

\* POST /api/auth/login
Login(Payloads, Remotes, cap) ==
    \E w \in Workers, payload \in Payloads, remote \in Remotes :
        LET r == login(payload, DBCompany, DBOrganization.org_id, remote, issued + 1, now)
        IN  /\ r.session # None => issued < cap
            /\ r.remote_called \/ remote.ok
            /\ IF r.session # None
               THEN /\ StoreState(w, save_session(SESSIONS[w], r.session[1]),
                                   IF r.session[1].is_admin THEN METRICS[w]
                                   ELSE record_request(METRICS[w], "auth.login"),
                                   TRUE)
                    /\ issued' = issued + 1
                    /\ Accessed(issued + 1)
               ELSE UNCHANGED <<SESSIONS, STATE_FILE, issued, METRICS, METRICS_FILE,
                                last_access, revoked>>
            /\ DBCompany' = IF r.flip THEN [DBCompany EXCEPT !.license_active = FALSE]
                            ELSE DBCompany
            /\ resp' = Response("login", w, r.status, r.detail,
                                IF r.session # None THEN issued + 1 ELSE 0, "missing",
                                payload, r.remote_called,
                                IF r.remote_called THEN remote ELSE NoRemote, "")
            /\ UNCHANGED <<threads, now, ticks, DBOrganization>>

\* GET /api/auth/me
Me(Hdrs) ==
    \E w \in Workers, hdr \in Hdrs, token \in Presentable :
        LET a == require_session(SESSIONS[w], hdr, token, now)
        IN  /\ hdr = "bearer" \/ token = 0
            /\ StoreSessions(w, a.sessions, a.saved)
            /\ Validation(a, token)
            /\ resp' = RouteResponse("me", w, a.status, a.detail, token, hdr, "")
            /\ UNCHANGED <<threads, now, ticks, issued, DBCompany, DBOrganization>>

\* POST /api/auth/logout
Logout ==
    \E w \in Workers, hdr \in {"bearer"}, token \in Presentable :
        LET a == require_session(SESSIONS[w], hdr, token, now)
        IN  /\ IF a.status = 200
               THEN StoreSessions(w, delete_session(a.sessions, a.ctx.token), TRUE)
               ELSE StoreSessions(w, a.sessions, a.saved)
            /\ revoked' = IF a.status = 200 THEN revoked \cup {token} ELSE revoked
            /\ UNCHANGED last_access
            /\ resp' = RouteResponse("logout", w, a.status, a.detail, token, hdr, "")
            /\ UNCHANGED <<threads, now, ticks, issued, DBCompany, DBOrganization>>

\* GET /api/user/tickets: a route that depends on require_org_user only
UserListTickets ==
    \E w \in Workers, hdr \in {"bearer"}, token \in Presentable :
        LET a == require_org_user(SESSIONS[w], hdr, token, now)
        IN  /\ StoreSessions(w, a.sessions, a.saved)
            /\ Validation(a, token)
            /\ resp' = RouteResponse("user_list_tickets", w, a.status, a.detail, token, hdr, "")
            /\ UNCHANGED <<threads, now, ticks, issued, DBCompany, DBOrganization>>

\* GET /api/user/helpdesk/conversations, GET /api/user/projects: require_org_user,
\* then _ensure_feature; status 200 stands for the gate letting the request through
GatedRoute ==
    \E w \in Workers, hdr \in {"bearer"}, token \in Presentable, key \in RouteKeys :
        LET a == require_org_user(SESSIONS[w], hdr, token, now)
            g == ensure_feature(a.ctx, key, DBCompany, DBOrganization, now)
        IN  /\ StoreSessions(w, a.sessions, a.saved)
            /\ Validation(a, token)
            /\ DBCompany' = IF a.status = 200 /\ g.flip
                            THEN [DBCompany EXCEPT !.license_active = FALSE]
                            ELSE DBCompany
            /\ resp' = IF a.status # 200
                       THEN RouteResponse("gated", w, a.status, a.detail, token, hdr, key)
                       ELSE RouteResponse("gated", w, g.status, g.detail, token, hdr, key)
            /\ UNCHANGED <<threads, now, ticks, issued, DBOrganization>>

\* GET /api/admin/companies/{company_id}/payments: a route that depends on
\* require_admin and reads only
AdminListPayments ==
    \E w \in Workers, hdr \in {"bearer"}, token \in Presentable :
        LET a == require_admin(SESSIONS[w], hdr, token, now)
        IN  /\ StoreSessions(w, a.sessions, a.saved)
            /\ Validation(a, token)
            /\ resp' = RouteResponse("admin_list_payments", w, a.status, a.detail,
                                     token, hdr, "")
            /\ UNCHANGED <<threads, now, ticks, issued, DBCompany, DBOrganization>>

\* PUT /api/admin/companies/{company_id}
AdminUpdateCompany(Payloads) ==
    \E w \in Workers, hdr \in {"bearer"}, token \in Presentable, payload \in Payloads :
        LET a == require_admin(SESSIONS[w], hdr, token, now)
        IN  /\ StoreSessions(w, a.sessions, a.saved)
            /\ Validation(a, token)
            /\ DBCompany' = IF a.status = 200 THEN update_company(DBCompany, payload)
                            ELSE DBCompany
            /\ resp' = RouteResponse("admin_update_company", w, a.status, a.detail,
                                     token, hdr, "")
            /\ UNCHANGED <<threads, now, ticks, issued, DBOrganization>>

\* POST /api/admin/companies/{company_id}/payments
AdminCreatePayment ==
    \E w \in Workers, hdr \in {"bearer"}, token \in Presentable, payload \in PaymentRequests :
        LET a == require_admin(SESSIONS[w], hdr, token, now)
        IN  /\ StoreSessions(w, a.sessions, a.saved)
            /\ Validation(a, token)
            /\ DBCompany' = IF a.status = 200 THEN create_payment(DBCompany, payload)
                            ELSE DBCompany
            /\ resp' = RouteResponse("admin_create_payment", w, a.status, a.detail,
                                     token, hdr, "")
            /\ UNCHANGED <<threads, now, ticks, issued, DBOrganization>>

\* PUT /api/admin/orgs/{org_id}
AdminUpdateOrg ==
    \E w \in Workers, hdr \in {"bearer"}, token \in Presentable, b \in BOOLEAN :
        LET a == require_admin(SESSIONS[w], hdr, token, now)
        IN  /\ StoreSessions(w, a.sessions, a.saved)
            /\ Validation(a, token)
            /\ DBOrganization' =
                   IF a.status = 200
                   THEN update_org(DBOrganization, Some([k \in {"ai.helpdesk"} |-> b]))
                   ELSE DBOrganization
            /\ resp' = RouteResponse("admin_update_org", w, a.status, a.detail, token, hdr, "")
            /\ UNCHANGED <<threads, now, ticks, issued, DBCompany>>

\* POST /login of routes/auth.py; the access code travels in the payload's
\* company_code field. The token is signed, not stored.
AdminTokenLogin ==
    \E w \in Workers, payload \in AdminTokenLogins :
        LET r == do_admin_login(payload.company_code, payload.username,
                                payload.password, now)
        IN  /\ resp' = [Response("admin_token_login", w, r.status, r.detail, 0, "missing",
                                 payload, FALSE, NoRemote, "")
                            EXCEPT !.credential = r.token]
            /\ UNCHANGED <<threads, now, ticks, SESSIONS, STATE_FILE, issued, DBCompany,
                           DBOrganization, METRICS, METRICS_FILE, last_access, revoked>>

(***************************************************************************)
(* The steps of GET /api/auth/me and POST /api/auth/logout, one request     *)
(* thread at a time. A Session is an object: storage.get_session hands out   *)
(* the object the map holds, so every thread that read the token's session   *)
(* and the map itself see an assignment to s.expires_at.                     *)
(***************************************************************************)
ThreadOps == {"me", "logout"}

\* what is left unchanged by every step of a request thread
ThreadFrame == UNCHANGED <<now, ticks, issued, DBCompany, DBOrganization, METRICS>>

\* the thread has passed require_session: me answers 200, logout goes on to
\* storage.delete_session. Both routes run the same require_session, so which
\* of the two the request is matters from here on only.
Passed(th, thr) ==
    \E op \in ThreadOps :
        IF op = "logout"
        THEN /\ threads' = [threads EXCEPT ![th] = [thr EXCEPT !.pc = "delete"]]
             /\ resp' = NoResponse
        ELSE /\ threads' = [threads EXCEPT ![th] = IdleThread]
             /\ resp' = RouteResponse(op, thr.worker, 200, "", thr.token, "bearer", "")

\* the thread's request is refused by require_session
Refused(w, detail, token) ==
    resp' = RouteResponse("require_session", w, 401, detail, token, "bearer", "")

\* s = storage.get_session(token); if not s: raise 401
GetSession(th) ==
    \E w \in Workers, token \in 1..issued :
        /\ threads[th].pc = "idle"
        /\ IF has_session(SESSIONS[w], token)
           THEN /\ threads' = [threads EXCEPT ![th] =
                        [pc |-> "got", worker |-> w, token |-> token,
                         s |-> Some(SESSIONS[w][token]), t |-> 0]]
                /\ resp' = NoResponse
           ELSE /\ Refused(w, "Invalid session", token)
                /\ UNCHANGED threads
        /\ UNCHANGED <<SESSIONS, STATE_FILE, METRICS_FILE, last_access, revoked>>
        /\ ThreadFrame

\* now = int(time.time()); the expiry test with its delete_session, and the
\* test of the time that remains
CheckExpiry(th) ==
    LET thr == threads[th]
        w == thr.worker
    IN  /\ thr.pc = "got"
        /\ IF is_expired(thr.s[1], now)
           THEN /\ IF has_session(SESSIONS[w], thr.token)
                   THEN StoreSessions(w, delete_session(SESSIONS[w], thr.token), TRUE)
                   ELSE UNCHANGED <<SESSIONS, STATE_FILE, METRICS, METRICS_FILE>>
                /\ threads' = [threads EXCEPT ![th] = IdleThread]
                /\ Refused(w, "Session expired", thr.token)
                /\ UNCHANGED <<last_access, revoked>>
           ELSE IF needs_refresh(thr.s[1], now)
           THEN /\ threads' = [threads EXCEPT ![th] = [thr EXCEPT !.pc = "refresh", !.t = now]]
                /\ resp' = NoResponse
                /\ UNCHANGED <<SESSIONS, STATE_FILE, METRICS, METRICS_FILE, last_access,
                               revoked>>
           ELSE /\ Passed(th, thr)
                /\ Accessed(thr.token)
                /\ UNCHANGED <<SESSIONS, STATE_FILE, METRICS, METRICS_FILE>>
        /\ UNCHANGED <<now, ticks, issued, DBCompany, DBOrganization>>

\* s.expires_at = now + ttl: an assignment to the object, which the map of the
\* process (while it holds the object) and the other threads that read it see
SetExpiry(th) ==
    LET thr == threads[th]
        w == thr.worker
        same(x) == threads[x].pc # "idle" /\ threads[x].worker = w
                   /\ threads[x].token = thr.token
    IN  /\ thr.pc = "refresh"
        /\ threads' = [x \in Threads |->
                          IF x = th
                          THEN [thr EXCEPT !.pc = "save", !.s = Some(refreshed(thr.s[1], thr.t))]
                          ELSE IF same(x)
                          THEN [threads[x] EXCEPT !.s = Some(refreshed(thr.s[1], thr.t))]
                          ELSE threads[x]]
        /\ SESSIONS' = [SESSIONS EXCEPT ![w] =
                           IF has_session(@, thr.token)
                           THEN save_session(@, refreshed(thr.s[1], thr.t))
                           ELSE @]
        /\ resp' = NoResponse
        /\ UNCHANGED <<STATE_FILE, METRICS_FILE, last_access, revoked>>
        /\ ThreadFrame

\* storage.save_session(s): SESSIONS[s.token] = s, then save_state
SaveSession(th) ==
    LET thr == threads[th]
        w == thr.worker
    IN  /\ thr.pc = "save"
        /\ StoreSessions(w, save_session(SESSIONS[w], thr.s[1]), TRUE)
        /\ Passed(th, thr)
        /\ Accessed(thr.token)
        /\ UNCHANGED <<now, ticks, issued, DBCompany, DBOrganization>>

\* storage.delete_session(ctx.token) of logout, and its answer
DeleteSession(th) ==
    LET thr == threads[th]
        w == thr.worker
    IN  /\ thr.pc = "delete"
        /\ IF has_session(SESSIONS[w], thr.token)
           THEN StoreSessions(w, delete_session(SESSIONS[w], thr.token), TRUE)
           ELSE UNCHANGED <<SESSIONS, STATE_FILE, METRICS, METRICS_FILE>>
        /\ threads' = [threads EXCEPT ![th] = IdleThread]
        /\ resp' = RouteResponse("logout", w, 200, "", thr.token, "bearer", "")
        /\ revoked' = revoked \cup {thr.token}
        /\ UNCHANGED last_access
        /\ UNCHANGED <<now, ticks, issued, DBCompany, DBOrganization>>

\* a step of a request thread
ThreadStep(th) ==
    \/ GetSession(th)
    \/ CheckExpiry(th)
    \/ SetExpiry(th)
    \/ SaveSession(th)
    \/ DeleteSession(th)

\* the life of a session: an administrator and a user of the company sign in,
\* their tokens are validated as time passes, worker processes are started again
SessionLogins == {Payload("admin", "admin", "s3cret"), Payload("ACME-1", "bob", "pw")}
RemoteSuccess == {o \in RemoteOutcomes : o.ok}

Next ==
    \/ Tick
    \/ Restart
    \/ Login(SessionLogins, RemoteSuccess, MaxTokens)
    \/ Me({"bearer"})

Spec == Init /\ [][Next]_vars

\* requests that run at the same time: a user signs in, the clock advances,
\* request threads validate the token and log out, step by step
ThreadLogins == {Payload("ACME-1", "bob", "pw")}

\* the clock advances by hours between requests, not within one: a request
\* that takes longer than gunicorn's timeout of 120 seconds is killed
TickBetweenRequests ==
    /\ ticks < MaxThreadTicks
    /\ \A th \in Threads : threads[th].pc = "idle"
    /\ Tick

NextThreads ==
    \/ TickBetweenRequests
    \/ Login(ThreadLogins, RemoteSuccess, MaxTokens)
    \/ \E th \in Threads : ThreadStep(th)

SpecThreads == Init /\ [][NextThreads]_vars

\* the access tokens Auth.login can hand back: claims in every position of
\* the order, a blank claim, a full name that begins with a space, and a token
\* whose payload does not decode
DisplayTokens ==
    {"jwt.given", "jwt.name", "jwt.blank", "jwt.handle", "jwt.mail", "jwt.padded",
     "jwt.opaque"}
DisplayRemotes ==
    {[ok |-> TRUE, access_token |-> tok, exp_ts |-> Epoch + 3600,
      secure_client_role |-> "role-1", text |-> <<>>] : tok \in DisplayTokens}

\* tenant logins under every access token, followed by requests that
\* validate and refresh the sessions
NextDisplay ==
    \/ Tick
    \/ Login(ThreadLogins, DisplayRemotes, MaxTokens)
    \/ Me({"bearer"})
SpecDisplay == Init /\ [][NextDisplay]_vars

\* signing in and out: every kind of login request and of Authorization
\* header, the routes that narrow the role
NextLogin ==
    \/ Login(LoginPayloads, RemoteOutcomes \cup RemoteFailures, MaxTokens)
    \/ Restart
    \/ AdminTokenLogin
    \/ Me(Headers)
    \/ Logout
    \/ UserListTickets
    \/ AdminListPayments

SpecLogin == Init /\ [][NextLogin]_vars

\* signing in to a company: an administrator signs in and edits the company's
\* license and allow-list, users of the company sign in
LicenseLogins == SessionLogins \cup OtherTenantLogins

\* the remote login succeeds or times out
LicenseRemotes == RemoteSuccess \cup {Raised(<<"Read timed out">>)}

NextLicense ==
    \/ Login(LicenseLogins, LicenseRemotes, MaxTokens + 1)
    \/ AdminUpdateCompany(LicensePayloads \cup AllowListPayloads)

SpecLicense == Init /\ [][NextLicense]_vars

\* the gated routes: an administrator signs in and edits the company's license
\* and features and the organization's features, a user of the company signs in
\* and calls the gated routes
\* the feature maps a company row starts with: the defaults (admin_create_org,
\* admin_create_company without features), the features of the request
\* (admin_create_company), none (a row that init_db migrated)
CompanyFeatureMaps ==
    {DEFAULT_SERVICE_FLAGS, [k \in {"ai.helpdesk"} |-> TRUE], EmptyMap}

InitTenant ==
    /\ now = Epoch
    /\ ticks = 0
    /\ SESSIONS = [w \in Workers |-> NoSessions]
    /\ STATE_FILE = NoSessions
    /\ issued = 0
    /\ \E f \in CompanyFeatureMaps : DBCompany = [InitCompany EXCEPT !.features_json = f]
    /\ DBOrganization = InitOrganization
    /\ resp = NoResponse
    /\ METRICS = [w \in Workers |-> NoCounters]
    /\ METRICS_FILE = NoCounters
    /\ last_access = EmptyMap
    /\ revoked = {}
    /\ threads = [th \in Threads |-> IdleThread]

NextTenant ==
    \/ Login(SessionLogins, RemoteSuccess, MaxTokens + 1)
    \/ GatedRoute
    \/ AdminUpdateCompany(LicensePayloads \cup FeaturePayloads)
    \/ AdminUpdateOrg

SpecTenant == InitTenant /\ [][NextTenant]_vars

\* passive corrections: the company's license period ends while the clock
\* advances, a user of the company signs in, validates the token and calls the
\* gated routes, sessions expire
InitCorrection ==
    /\ now = Epoch
    /\ ticks = 0
    /\ SESSIONS = [w \in Workers |-> NoSessions]
    /\ STATE_FILE = NoSessions
    /\ issued = 0
    /\ \E e \in {EndSoon, EndLate} :
           DBCompany = [InitCompany EXCEPT !.license_current_period_end = e]
    /\ DBOrganization = InitOrganization
    /\ resp = NoResponse
    /\ METRICS = [w \in Workers |-> NoCounters]
    /\ METRICS_FILE = NoCounters
    /\ last_access = EmptyMap
    /\ revoked = {}
    /\ threads = [th \in Threads |-> IdleThread]

\* a license that has run out and is renewed: the period ended before the
\* first request, a user of the company signs in and calls the gated routes,
\* an administrator moves the period end, switches the flag on, enters a payment
InitRenewal ==
    /\ now = Epoch
    /\ ticks = 0
    /\ SESSIONS = [w \in Workers |-> NoSessions]
    /\ STATE_FILE = NoSessions
    /\ issued = 0
    /\ DBCompany = [InitCompany EXCEPT !.license_current_period_end = EndPast]
    /\ DBOrganization = InitOrganization
    /\ resp = NoResponse
    /\ METRICS = [w \in Workers |-> NoCounters]
    /\ METRICS_FILE = NoCounters
    /\ last_access = EmptyMap
    /\ revoked = {}
    /\ threads = [th \in Threads |-> IdleThread]

NextRenewal ==
    \/ Login(SessionLogins, RemoteSuccess, MaxTokens + 1)
    \/ GatedRoute
    \/ AdminUpdateCompany(RenewalPayloads)
    \/ AdminCreatePayment

SpecRenewal == InitRenewal /\ [][NextRenewal]_vars

NextCorrection ==
    \/ Tick
    \/ Login(ThreadLogins, LicenseRemotes, MaxTokens)
    \/ Me({"bearer"})
    \/ GatedRoute

SpecCorrection == InitCorrection /\ [][NextCorrection]_vars

(***************************************************************************)
(* Properties of the session broker                                        *)
(***************************************************************************)
\* the request just handled was a login in the administrator realm with no
\* blank field
AdminRealmLogin(r) ==
    /\ r.op = "login"
    /\ lower(strip(r.payload.company_code)) = lower(ADMIN_ACCESS_CODE)
    /\ strip(r.payload.username) # ""
    /\ r.payload.password # ""

\* the credentials of the request are the configured administrator's
AdminCredentials(r) ==
    strip(r.payload.username) = ADMIN_USERNAME /\ r.payload.password = ADMIN_PASSWORD

\* the routes that only validate the bearer token
ValidateOps == {"me"}

\* the request just handled passed _session_from_token
Validated(r) ==
    /\ r.op \in ValidateOps
    /\ r.status = 200

\* worker w holds an unexpired session for the token
HoldsValid(w, token) ==
    has_session(SESSIONS[w], token) /\ ~is_expired(SESSIONS[w][token], now)

\* C2: once a validation has found a token's session expired (401 "Session
\* expired", session deleted), a validation of the same token fails with 401 in
\* whichever worker process handles it.
C2_ExpiredTokenStaysUnresolvable ==
    (resp.status = 401 /\ resp.detail = "Session expired")
        => \A w \in Workers :
               require_session(SESSIONS[w], "bearer", resp.token, now).status = 401

\* C3: a successful validation at time now of a session with r = expires_at - now
\* left stores expires_at = now + ttl (in the process and in state.json) when
\* r < refresh_threshold, and leaves expires_at as it was when r >= refresh_threshold.
C3_SlidingRefresh ==
    [][Validated(resp') =>
          LET w == resp'.worker
              tok == resp'.token
              r == SESSIONS[w][tok].expires_at - now
          IN  /\ has_session(SESSIONS'[w], tok)
              /\ r < refresh_threshold =>
                    /\ SESSIONS'[w][tok].expires_at = now + 8 * 3600
                    /\ has_session(STATE_FILE', tok)
                    /\ STATE_FILE'[tok].expires_at = now + 8 * 3600
              /\ r >= refresh_threshold =>
                    SESSIONS'[w][tok].expires_at = SESSIONS[w][tok].expires_at]_vars

\* C3 witness: a validation has just refreshed a session created earlier
C3_Refreshed ==
    /\ resp.op = "me" /\ resp.status = 200
    /\ SESSIONS[resp.worker][resp.token].created_at < now
    /\ SESSIONS[resp.worker][resp.token].expires_at = now + ttl

\* C4: require_admin answers 403 for a valid tenant session and require_org_user
\* answers 403 for a valid administrator session.
C4_RoleNarrowing ==
    /\ (resp.op = "admin_list_payments" /\ HoldsValid(resp.worker, resp.token)
         /\ ~SESSIONS[resp.worker][resp.token].is_admin) => resp.status = 403
    /\ (resp.op = "user_list_tickets" /\ HoldsValid(resp.worker, resp.token)
         /\ SESSIONS[resp.worker][resp.token].is_admin) => resp.status = 403

\* C4 witness: an administrator route was asked for with a valid tenant session
C4_TenantAtAdminRoute ==
    /\ resp.op = "admin_list_payments" /\ resp.status = 403
    /\ HoldsValid(resp.worker, resp.token)
    /\ ~SESSIONS[resp.worker][resp.token].is_admin

\* C5: a login in the administrator realm with the configured credentials
\* succeeds and stores a session with is_admin = true and no org_id and
\* company_id, and its token then validates in whichever worker handles the
\* validation.
C5_AdminLoginValidates ==
    (AdminRealmLogin(resp) /\ AdminCredentials(resp)) =>
        /\ resp.status = 200
        /\ resp.token # 0
        /\ \A w \in Workers :
               LET a == require_session(SESSIONS[w], "bearer", resp.token, now)
               IN  /\ a.status = 200
                   /\ a.ctx.is_admin /\ a.ctx.org_id = Nil /\ a.ctx.company_id = Nil

\* C6: a login in the administrator realm whose credentials are not the
\* configured pair answers 401 "Invalid admin credentials", for an unknown
\* username as for a wrong password, and stores no session.
C6_AdminLoginRejected ==
    [][(AdminRealmLogin(resp') /\ ~AdminCredentials(resp')) =>
          /\ resp'.status = 401
          /\ resp'.detail = "Invalid admin credentials"
          /\ resp'.token = 0
          /\ UNCHANGED <<SESSIONS, STATE_FILE, issued>>]_vars

\* C6 witness: a login with an unknown username was rejected
C6_UnknownAdminRejected ==
    /\ AdminRealmLogin(resp)
    /\ strip(resp.payload.username) # ADMIN_USERNAME
    /\ resp.status = 401

(***************************************************************************)
(* Properties of the tenant login                                          *)
(***************************************************************************)
\* the request just handled was a login whose code resolves to the company,
\* with no blank field
TenantLogin(r) ==
    /\ r.op = "login"
    /\ strip(r.payload.username) # "" /\ r.payload.password # ""
    /\ lower(strip(r.payload.company_code)) # lower(ADMIN_ACCESS_CODE)
    /\ strip(r.payload.company_code) = DBCompany.code

\* the company's license period has ended
PeriodEnded == DBCompany.license_current_period_end < now

\* the company's allow-list is empty: the stored list has no entry that is
\* not blank
AllowListEmpty ==
    \A i \in 1..Len(DBCompany.allowed_users_json) :
        strip(DBCompany.allowed_users_json[i]) = ""

\* the company's allow-list names the user, in some letter case
OnAllowList(username) ==
    \E i \in 1..Len(DBCompany.allowed_users_json) :
        /\ strip(DBCompany.allowed_users_json[i]) # ""
        /\ lower(strip(DBCompany.allowed_users_json[i])) = lower(username)

\* the company has a non-empty allow-list that does not name the user
NotOnAllowList(username) == ~AllowListEmpty /\ ~OnAllowList(username)

\* C1: a tenant login to a company whose license period-end is earlier than
\* now fails with 403, without a call of Auth.login and without a session.
C1_PeriodEndedLoginForbidden ==
    (TenantLogin(resp) /\ PeriodEnded) =>
        /\ resp.status = 403
        /\ ~resp.remote_called
        /\ resp.token = 0

\* C10 as claimed: when the license is inactive or its period has ended and the
\* allow-list does not name the user, login answers the license error.
C10_LicenseErrorFirst ==
    (/\ TenantLogin(resp)
     /\ ~DBCompany.license_active \/ PeriodEnded
     /\ NotOnAllowList(strip(resp.payload.username)))
        => resp.detail = "License inactive or expired"

\* C10 as amended: tenant login looks at the allow-list, then at the license,
\* then calls the remote login, and the first failing gate decides. A user the
\* non-empty allow-list does not name gets 403 "User is not allowed for this
\* company code" whatever the license is, and the stored flag is not touched.
\* The license error is answered only to a user who passed the allow-list, for a
\* license that is inactive or whose period has ended, with the stored flag
\* false when the period has ended. The remote login is called only for a user
\* who passed the allow-list under a license whose flag is active. Neither
\* error calls the remote login or stores a session.
C10_AllowListThenLicense ==
    [][TenantLogin(resp') =>
          LET username == strip(resp'.payload.username)
          IN  /\ NotOnAllowList(username) =>
                    /\ resp'.status = 403
                    /\ resp'.detail = "User is not allowed for this company code"
                    /\ ~resp'.remote_called
                    /\ UNCHANGED <<DBCompany, SESSIONS, STATE_FILE, issued>>
              /\ resp'.detail = "License inactive or expired" =>
                    /\ resp'.status = 403
                    /\ ~NotOnAllowList(username)
                    /\ ~DBCompany.license_active \/ PeriodEnded
                    /\ PeriodEnded => ~DBCompany'.license_active
                    /\ ~resp'.remote_called
                    /\ UNCHANGED <<SESSIONS, STATE_FILE, issued>>
              /\ resp'.remote_called =>
                    ~NotOnAllowList(username) /\ DBCompany.license_active]_vars

\* C10 witness: a user the allow-list does not name was turned away with the
\* allow-list error while the license was inactive
C10_AllowListErrorUnderInactiveLicense ==
    /\ TenantLogin(resp)
    /\ NotOnAllowList(strip(resp.payload.username))
    /\ ~DBCompany.license_active
    /\ resp.status = 403
    /\ resp.detail = "User is not allowed for this company code"

(***************************************************************************)
(* Properties of the feature / license gate                                *)
(***************************************************************************)
\* the request r was a gated route called with a valid tenant session, so that
\* _ensure_feature decided it; S is the session map of the processes after it
GateDecided(r, S) ==
    /\ r.op = "gated"
    /\ has_session(S[r.worker], r.token)
    /\ ~is_expired(S[r.worker][r.token], now)
    /\ ~S[r.worker][r.token].is_admin

\* C7: a gated request made with a valid tenant session fails with 403 while the
\* company has license_active = false or a period-end earlier than now.
C7_NoFeatureWithoutLicense ==
    (GateDecided(resp, SESSIONS) /\ (~DBCompany.license_active \/ PeriodEnded))
        => resp.status = 403

\* C8: two consecutive gated requests for the same key, with the rows unchanged
\* in between, get the same verdict; and the gated request right after an
\* admin_update_company sees the row as updated: 403 when the license flag is
\* off, 403 when the company's map holds the key as false, and 200 when the
\* license is active with its period ahead and the company and the
\* organization hold the key as true.
C8_GateReadsCurrentState ==
    [][GateDecided(resp', SESSIONS') =>
          /\ (GateDecided(resp, SESSIONS) /\ resp.key = resp'.key) =>
                (resp'.status = resp.status /\ resp'.detail = resp.detail)
          /\ (resp.op = "admin_update_company" /\ resp.status = 200) =>
                /\ ~DBCompany.license_active => resp'.status = 403
                /\ (resp'.key \in DOMAIN DBCompany.features_json
                     /\ ~DBCompany.features_json[resp'.key]) => resp'.status = 403
                /\ (/\ DBCompany.license_active
                     /\ DBCompany.license_current_period_end > now
                     /\ resp'.key \in DOMAIN DBCompany.features_json
                     /\ DBCompany.features_json[resp'.key]
                     /\ resp'.key \in DOMAIN DBOrganization.features_json
                     /\ DBOrganization.features_json[resp'.key]) => resp'.status = 200]_vars

\* C8 witness: a session issued while the license was active is refused at the
\* gate after the administrator switched the license off
C8_RefusedAfterLicenseSwitchedOff ==
    /\ GateDecided(resp, SESSIONS)
    /\ ~DBCompany.license_active
    /\ DBCompany.license_current_period_end > now
    /\ resp.status = 403
    /\ resp.detail = "Company code license inactive"

\* the license lets the gate through: the flag is on and the period is ahead
LicenseValid == DBCompany.license_active /\ DBCompany.license_current_period_end >= now

\* the overlay default <- organization <- company
Overlay == dict_update(dict_update(DEFAULT_SERVICE_FLAGS, DBOrganization.features_json),
                       DBCompany.features_json)

\* C9 as claimed: under a valid license the gate lets a request through exactly
\* when the overlay default <- organization <- company holds the key as true.
C9_CompanyOverlayWins ==
    (GateDecided(resp, SESSIONS) /\ LicenseValid) =>
        (resp.status = 200 <=> dict_get(Overlay, resp.key))

\* C9 as amended: under a valid license the gate lets a request through exactly
\* when both levels allow it: the company's map is empty or holds the key as
\* true (a non-empty map without the key denies), and the overlay
\* default <- organization holds the key as true; otherwise it answers 403.
C9_CompanyAndOrganization ==
    (GateDecided(resp, SESSIONS) /\ LicenseValid) =>
        LET company == DBCompany.features_json
            company_allows == company = EmptyMap
                              \/ (resp.key \in DOMAIN company /\ company[resp.key])
            org_allows == dict_get(dict_update(DEFAULT_SERVICE_FLAGS,
                                               DBOrganization.features_json), resp.key)
        IN  /\ resp.status = 200 <=> (company_allows /\ org_allows)
            /\ resp.status \in {200, 403}

\* C9 witness: the company holds the key as true, the organization as false,
\* and the gate refused
C9_OrganizationRefuses ==
    /\ GateDecided(resp, SESSIONS) /\ LicenseValid
    /\ dict_get(DBCompany.features_json, resp.key)
    /\ ~dict_get(DBOrganization.features_json, resp.key)
    /\ resp.status = 403
    /\ resp.detail = "Feature not enabled for org"

(***************************************************************************)
(* Properties of tenant login                                              *)
(***************************************************************************)
\* C11: a tenant login to a company with a valid license is refused with 403
\* "User is not allowed for this company code", without a call of Auth.login
\* and without a session, when the company's allow-list is not empty and does
\* not contain the username compared case-insensitively; when the allow-list
\* is empty or contains the username in any letter case, the login gets past
\* the allow-list and Auth.login is called.
C11_AllowListGate ==
    (TenantLogin(resp) /\ LicenseValid) =>
        IF NotOnAllowList(strip(resp.payload.username))
        THEN /\ resp.status = 403
             /\ resp.detail = "User is not allowed for this company code"
             /\ ~resp.remote_called
             /\ resp.token = 0
        ELSE resp.remote_called

\* C11 witness: a user whose name the allow-list spells in another letter
\* case got past the allow-list
C11_ListedInAnotherCase ==
    /\ TenantLogin(resp) /\ LicenseValid
    /\ ~AllowListEmpty
    /\ resp.payload.username = "Bob"
    /\ resp.remote_called

\* the failure text carries one of the signals P, in any letter case
HasSignal(text, P) == \E i \in DOMAIN text : lower(text[i]) \in P

CredentialSignals == {"invalid_grant", "invalid username", "invalid password"}
NoticeSignals == {"scheduled environment access notice"}

\* the three messages a failed remote login is answered with
InvalidCredentialsMessage == "RIB login failed: Invalid username/password. Please try again."
AccessNoticeMessage ==
    "RIB login failed: The target RIB 4.0 environment is currently not available outside its scheduled access window. Please try again later or contact your RIB implementation manager."
GenericFailureMessage ==
    "RIB login failed: We couldn't sign you in to the RIB server right now. Please verify your credentials and try again, or contact support if the issue persists."

\* the login called Auth.login and Auth.login raised
RemoteLoginFailed(r) == r.op = "login" /\ r.remote_called /\ ~r.remote.ok

\* C12: a failure of the remote login is classified by the first rule that
\* matches its text: a credentials signal gives 401 with the invalid-credentials
\* message; otherwise the access notice gives 503; anything else, a timeout or a
\* connection error included, gives 401 with the generic message. The login
\* answers an error and issues no session.
C12_OrderedClassification ==
    RemoteLoginFailed(resp) =>
        /\ resp.token = 0
        /\ IF HasSignal(resp.remote.text, CredentialSignals)
           THEN resp.status = 401 /\ resp.detail = InvalidCredentialsMessage
           ELSE IF HasSignal(resp.remote.text, NoticeSignals)
           THEN resp.status = 503 /\ resp.detail = AccessNoticeMessage
           ELSE resp.status = 401 /\ resp.detail = GenericFailureMessage

\* C12 witness: a failure text with the access notice and a credentials signal
\* was answered as invalid credentials
C12_CredentialsBeforeNotice ==
    /\ RemoteLoginFailed(resp)
    /\ HasSignal(resp.remote.text, CredentialSignals)
    /\ HasSignal(resp.remote.text, NoticeSignals)
    /\ resp.status = 401

\* the number of requests the counters mc hold for the route
RouteCount(mc, route) == IF route \in DOMAIN mc.per_route THEN mc.per_route[route] ELSE 0

\* C13: a successful tenant login stores exactly one new session in the worker
\* process that handles it and leaves every other session as it was. The new
\* session is not an administrator's, carries the organization and the company
\* the login code resolved to, expires 8 hours after now and holds the delegated
\* credential: the remote token, its expiry and role, and the company's
\* connection parameters. The process's usage counters of the organization go
\* up by exactly one, in total and for the route auth.login, and state.json
\* holds the process's sessions and counters afterwards.
C13_TenantLoginStoresSession ==
    [][(TenantLogin(resp') /\ resp'.status = 200) =>
          LET w == resp'.worker
              tok == resp'.token
          IN  /\ tok \notin DOMAIN SESSIONS[w]
              /\ DOMAIN SESSIONS'[w] = DOMAIN SESSIONS[w] \cup {tok}
              /\ \A k \in DOMAIN SESSIONS[w] : SESSIONS'[w][k] = SESSIONS[w][k]
              /\ \A v \in Workers \ {w} : SESSIONS'[v] = SESSIONS[v] /\ METRICS'[v] = METRICS[v]
              /\ SESSIONS'[w][tok].token = tok
              /\ SESSIONS'[w][tok].is_admin = FALSE
              /\ SESSIONS'[w][tok].org_id = DBOrganization.org_id
              /\ SESSIONS'[w][tok].company_id = DBCompany.company_id
              /\ SESSIONS'[w][tok].expires_at = now + 8 * 3600
              /\ SESSIONS'[w][tok].rib_session =
                     <<[access_token |-> resp'.remote.access_token,
                        exp_ts |-> resp'.remote.exp_ts,
                        secure_client_role |-> resp'.remote.secure_client_role,
                        host |-> DBCompany.base_url,
                        company_code |-> DBCompany.rib_company_code,
                        username |-> strip(resp'.payload.username)]>>
              /\ resp'.remote.ok
              /\ METRICS'[w].total_requests = METRICS[w].total_requests + 1
              /\ RouteCount(METRICS'[w], "auth.login") = RouteCount(METRICS[w], "auth.login") + 1
              /\ STATE_FILE' = SESSIONS'[w]
              /\ METRICS_FILE' = METRICS'[w]]_vars

\* C13 witness: a tenant login succeeded in a process that had counted one
\* login before
C13_SecondTenantLoginCounted ==
    /\ TenantLogin(resp) /\ resp.status = 200
    /\ RouteCount(METRICS[resp.worker], "auth.login") = 2

\* the login has no blank field and its code is not the administrators' code
CompanyCodeLogin(r) ==
    /\ r.op = "login"
    /\ strip(r.payload.company_code) # "" /\ strip(r.payload.username) # ""
    /\ r.payload.password # ""
    /\ lower(strip(r.payload.company_code)) # lower(ADMIN_ACCESS_CODE)

\* C14: the login code of a tenant login is matched against the company's code
\* without regard to letter case: a code that differs from the company's code
\* only in letter case is not answered 404, and a code that matches no company
\* is answered 404 without a call of Auth.login and without a session.
C14_CodeMatchedInAnyCase ==
    CompanyCodeLogin(resp) =>
        IF lower(strip(resp.payload.company_code)) = lower(DBCompany.code)
        THEN resp.status # 404
        ELSE resp.status = 404 /\ ~resp.remote_called /\ resp.token = 0

(***************************************************************************)
(* Properties of logout and of the session's lifetime                      *)
(***************************************************************************)
\* the request presented the token as a bearer token to a route behind
\* require_session
Presented(r, token) ==
    r.op \notin {"none", "login", "admin_token_login"} /\ r.hdr = "bearer" /\ r.token = token

\* C15: revoking a session is an idempotent delete: revoking a token that is
\* not in the store changes nothing, revoking twice is revoking once, and once a
\* token has been revoked every later validation of it is answered 401.
C15_RevokedTokenStaysInvalid ==
    \A token \in revoked :
        /\ \A w \in Workers :
               /\ ~has_session(SESSIONS[w], token) =>
                      delete_session(SESSIONS[w], token) = SESSIONS[w]
               /\ delete_session(delete_session(SESSIONS[w], token), token)
                      = delete_session(SESSIONS[w], token)
        /\ Presented(resp, token) /\ resp.op # "logout" => resp.status = 401

\* C16: POST /api/auth/logout is answered 200 whatever token it is called
\* with: one that was never issued, one that has expired, one that has been
\* revoked already.
C16_LogoutAlwaysOk == resp.op = "logout" => resp.status = 200

\* every copy of a session, in the worker processes and in state.json,
\* expires at most 8 hours after the token's most recent successful access
ExpiryBounded(S, accessed) ==
    \A token \in DOMAIN S :
        /\ token \in DOMAIN accessed
        /\ S[token].expires_at <= accessed[token] + 8 * 3600

\* C17: a session expires at most 8 hours after its last activity. After every
\* step, every copy of a session has expires_at <= (time of the token's creation
\* or most recent successful validation) + 8 hours; and a validation at a time
\* later than that access + 8 hours is answered 401.
C17_IdleSessionsExpire ==
    [][/\ \A w \in Workers : ExpiryBounded(SESSIONS'[w], last_access')
       /\ ExpiryBounded(STATE_FILE', last_access')
       /\ \A token \in DOMAIN last_access :
              (Presented(resp', token) /\ now' > last_access[token] + 8 * 3600)
                  => resp'.status = 401]_vars

\* C17 witness: a token was presented more than 8 hours after its last
\* successful access and was answered 401 "Session expired"
C17_IdleSessionExpired ==
    /\ resp.op = "me" /\ resp.token \in DOMAIN last_access
    /\ now > last_access[resp.token] + 8 * 3600
    /\ resp.status = 401 /\ resp.detail = "Session expired"

\* C18: a client that polls stays logged in: a token that has not been revoked
\* and is validated no later than 20 minutes after its creation or its last
\* successful validation is validated successfully, whichever worker process
\* handles the request.
C18_PollingClientStaysLoggedIn ==
    \A token \in DOMAIN last_access \ revoked :
        (Presented(resp, token) /\ now - last_access[token] <= 20 * 60)
            => resp.status # 401

\* C19: one TTL of 8 hours everywhere: the token the admin token login hands
\* out is valid for 8 hours from its creation, the session a login stores
\* expires 8 hours after its creation, and no stored session expires later than
\* 8 hours after the token's most recent successful access.
C19_OneTTL ==
    /\ (resp.op = "admin_token_login" /\ resp.status = 200) =>
           resp.credential[1].exp = resp.credential[1].iat + 8 * 3600
    /\ (resp.op = "login" /\ resp.status = 200) =>
           LET s == SESSIONS[resp.worker][resp.token]
           IN  s.expires_at = s.created_at + 8 * 3600
    /\ \A w \in Workers : ExpiryBounded(SESSIONS[w], last_access)

\* the messages a failed remote login can be answered with
FailureMessages == {InvalidCredentialsMessage, AccessNoticeMessage, GenericFailureMessage}

\* the name of the remote system
RemoteSystemName == "RIB"

\* p in s, for the strings of the model: the three messages and the texts
\* "RIB login failed <status>" of Auth.login spell the remote system's name;
\* no message has a failure text as a substring
in_string(p, s) ==
    CASE p = s -> TRUE
      [] p = RemoteSystemName ->
            s \in FailureMessages \cup {"RIB login failed 400", "RIB login failed 401"}
      [] OTHER -> FALSE

\* the class of a failure text
FailureClass(text) ==
    IF HasSignal(text, CredentialSignals) THEN "invalid_credentials"
    ELSE IF HasSignal(text, NoticeSignals) THEN "access_notice"
    ELSE "other"

\* C20: the answer to a failed tenant login depends on the remote failure text
\* only through its class: every failure text of the same class is answered
\* with the same status and message, the message is one of three fixed strings,
\* and the message contains neither a part of the remote failure text nor the
\* remote system's name.
C20_NoRemoteTextOrName ==
    RemoteLoginFailed(resp) =>
        /\ \A o \in RemoteOutcomes \cup RemoteFailures :
               (~o.ok /\ FailureClass(o.text) = FailureClass(resp.remote.text)) =>
                   rib_login_error(o.text) = [status |-> resp.status, detail |-> resp.detail]
        /\ resp.detail \in FailureMessages
        /\ \A i \in DOMAIN resp.remote.text : ~in_string(resp.remote.text[i], resp.detail)
        /\ ~in_string(RemoteSystemName, resp.detail)

(***************************************************************************)
(* Properties of requests that run at the same time                        *)
(***************************************************************************)
\* C21: a revoke is linearizable against a refresh of the same token: once a
\* logout has deleted the token's session, the session is in no process's
\* store, whatever validation of the token was under way; a refresh does not
\* put a deleted session back.
C21_DeletedStaysDeleted ==
    \A token \in revoked : \A w \in Workers : ~has_session(SESSIONS[w], token)

\* thread th has just assigned s.expires_at
HasSetExpiry(th) == threads[th].pc = "refresh" /\ threads'[th].pc = "save"

\* thread th has just returned from storage.save_session
HasSavedSession(th) == threads[th].pc = "save" /\ threads'[th].pc # "save"

\* C22: validations of one token that run at the same time and each decide
\* to refresh do not corrupt the session. Each assignment sets expires_at to
\* the clock reading of its validation + 8 hours and changes no other field, in
\* the object and in the store that holds it; each save leaves the session
\* stored, in the process and in state.json, with the expires_at the last
\* assignment wrote and with its other fields as they were.
C22_RefreshLastWriterWins ==
    [][\A th \in Threads :
          LET thr == threads[th]
              w == thr.worker
              tok == thr.token
          IN  /\ HasSetExpiry(th) =>
                    /\ threads'[th].s[1] = [thr.s[1] EXCEPT !.expires_at = thr.t + 8 * 3600]
                    /\ has_session(SESSIONS[w], tok) =>
                           /\ has_session(SESSIONS'[w], tok)
                           /\ SESSIONS'[w][tok] =
                                  [SESSIONS[w][tok] EXCEPT !.expires_at = thr.t + 8 * 3600]
              /\ HasSavedSession(th) =>
                    /\ has_session(SESSIONS'[w], tok)
                    /\ SESSIONS'[w][tok] = thr.s[1]
                    /\ SESSIONS'[w][tok].expires_at = now + 8 * 3600
                    /\ has_session(SESSIONS[w], tok) => SESSIONS'[w][tok] = SESSIONS[w][tok]
                    /\ STATE_FILE' = SESSIONS'[w]]_vars

\* C22 witness: one of two validations that refresh the same token has saved
\* the session and answered, the other has assigned and is about to save
C22_SecondRefreshUnderWay ==
    /\ resp.op = "me" /\ resp.status = 200
    /\ \E th \in Threads :
           /\ threads[th].pc = "save"
           /\ threads[th].worker = resp.worker /\ threads[th].token = resp.token
           /\ has_session(SESSIONS[resp.worker], resp.token)
           /\ SESSIONS[resp.worker][resp.token].expires_at = now + 8 * 3600

\* C23: the session store is shared by the worker processes and durable: a
\* token that has not been revoked and that one worker process accepts is
\* accepted by every worker process, and its session is in state.json.
C23_StoreSharedAcrossWorkers ==
    \A token \in DOMAIN last_access \ revoked :
        (\E w \in Workers : HoldsValid(w, token)) =>
            /\ \A w \in Workers : HoldsValid(w, token)
            /\ has_session(STATE_FILE, token)

(***************************************************************************)
(* Properties of the stored sessions                                       *)
(***************************************************************************)
\* every copy of a session: in the worker processes and in state.json
StoredSessions ==
    UNION {{SESSIONS[w][k] : k \in DOMAIN SESSIONS[w]} : w \in Workers}
        \cup {STATE_FILE[k] : k \in DOMAIN STATE_FILE}

\* the shape of an administrator's or of a tenant user's session
WellShaped(s) ==
    /\ s.is_admin <=> s.org_id = Nil
    /\ s.is_admin => s.org_id = Nil /\ s.company_id = Nil /\ s.rib_session = None
    /\ ~s.is_admin => s.org_id # Nil /\ s.company_id # Nil

\* C24: every stored session is an administrator's session without
\* organization, company and delegated credential, or a tenant user's session
\* with organization and company; is_admin is true exactly when org_id is
\* null; and no request is answered 400 "Missing org/company on session".
C24_SessionShape ==
    /\ \A s \in StoredSessions : WellShaped(s)
    /\ resp.detail # "Missing org/company on session"

\* C24 witness: a tenant user's session went through require_org_user
C24_TenantPassedOrgUser ==
    /\ resp.op = "user_list_tickets" /\ resp.status = 200
    /\ \E s \in StoredSessions : s.token = resp.token /\ ~s.is_admin

\* C25: every stored session expires later than it was created, when it has
\* just been created and after every sliding refresh.
C25_ExpiresAfterCreation ==
    \A s \in StoredSessions : s.expires_at > s.created_at

\* C25 witness: a stored session whose expiry a refresh has moved
C25_StoredAfterRefresh ==
    \E s \in StoredSessions : s.expires_at > s.created_at + 8 * 3600

\* thread th has just taken a step of require_session after it read the session
ValidateStep(th) ==
    threads[th].pc \in {"got", "refresh", "save"} /\ threads'[th].pc # threads[th].pc

\* the store S1 differs from the store S0 at most in the expires_at of the
\* token's session or in that the token's session has been removed
OnlyExpiryOrRemoval(S0, S1, token) ==
    /\ \A k \in DOMAIN S1 : k \in DOMAIN S0
    /\ \A k \in DOMAIN S0 \ {token} : k \in DOMAIN S1 /\ S1[k] = S0[k]
    /\ token \in DOMAIN S1 =>
           S1[token] = [S0[token] EXCEPT !.expires_at = S1[token].expires_at]

\* C26: a validation of token T changes nothing in the session store of the
\* process except the expires_at of T's session or the removal of T's session:
\* the other fields of T's session and the sessions of other tokens are as
\* they were, and the stores of the other processes are untouched.
C26_ValidateFrame ==
    [][\A th \in Threads :
          ValidateStep(th) =>
              /\ OnlyExpiryOrRemoval(SESSIONS[threads[th].worker],
                                     SESSIONS'[threads[th].worker], threads[th].token)
              /\ \A w \in Workers \ {threads[th].worker} : SESSIONS'[w] = SESSIONS[w]]_vars

(***************************************************************************)
(* Properties of the passive corrections                                   *)
(***************************************************************************)
\* C27: a passive correction comes with the error that caused it: a login or
\* a gated request that writes the company's license_active from true to false
\* is answered 403, and a validation that deletes a session is answered 401
\* "Session expired" for a session that had expired; no such request succeeds.
C27_CorrectionPairedWithError ==
    [][/\ (DBCompany.license_active /\ ~DBCompany'.license_active) =>
              /\ resp'.op \in {"login", "gated"}
              /\ resp'.status = 403
              /\ PeriodEnded
       /\ \A w \in Workers : \A k \in DOMAIN SESSIONS[w] \ DOMAIN SESSIONS'[w] :
              /\ resp'.token = k
              /\ resp'.status = 401 /\ resp'.detail = "Session expired"
              /\ is_expired(SESSIONS[w][k], now)]_vars

\* C27 witness: a login found the license period ended, wrote the flag and
\* was refused
C27_LoginFlippedAndRefused ==
    /\ TenantLogin(resp) /\ resp.status = 403
    /\ PeriodEnded /\ ~DBCompany.license_active
    /\ DBCompany.license_current_period_end = EndSoon

(***************************************************************************)
(* Properties of the display name                                          *)
(***************************************************************************)
\* the first whitespace-delimited token of a claim value
FirstWord(v) ==
    CASE v = "Alice Smith" -> "Alice"
      [] v = " Alice Smith" -> "Alice"
      [] OTHER -> v

\* a claim value that is empty or whitespace only
Blank(v) == v \in {"", " "}

\* the display name the claims of an access token call for: the first claim
\* of the order that is present and not blank, a full name cut to its first
\* word, else the username that was typed
ClaimedDisplay(tok, username) ==
    LET pl == jwt_payload(tok)
        Order == <<"given_name", "name", "unique_name", "preferred_username",
                   "email", "sub">>
        Usable(i) == Order[i] \in DOMAIN pl /\ ~Blank(pl[Order[i]])
        First(i) == Usable(i) /\ \A j \in 1..(i - 1) : ~Usable(j)
    IN  IF \E i \in 1..Len(Order) : First(i)
        THEN LET i == CHOOSE i \in 1..Len(Order) : First(i)
             IN  IF Order[i] = "name" THEN FirstWord(pl[Order[i]])
                 ELSE strip(pl[Order[i]])
        ELSE username

\* C28: the display_name of a tenant session is the first usable claim of the
\* access token in the order given_name, name, unique_name,
\* preferred_username, email, sub, a full name contributing only its first
\* whitespace-delimited token, or the username typed at login when no claim
\* is usable; it is never empty and stays as it was set.
C28_DisplayName ==
    \A s \in StoredSessions :
        ~s.is_admin =>
            /\ s.display_name # ""
            /\ s.display_name = ClaimedDisplay(s.rib_session[1].access_token, s.username)

(***************************************************************************)
(* Properties of what a login leaves alone                                 *)
(***************************************************************************)
\* the step is a request to POST /api/auth/login that has been answered
LoginAnswered == resp'.op = "login" /\ resp' # resp

\* every session of the store S0 is in the store S1 as it was
Kept(S0, S1) == \A k \in DOMAIN S0 : k \in DOMAIN S1 /\ S1[k] = S0[k]

\* C29: a login never modifies or removes an existing session. A failed login
\* leaves the sessions (in the processes and in state.json) and the usage
\* counters as they were; a successful login adds exactly one session, under
\* a token that was not present, and every session stored before is still
\* stored, unchanged and not expired.
C29_LoginFrame ==
    [][LoginAnswered =>
          IF resp'.status # 200
          THEN /\ SESSIONS' = SESSIONS /\ STATE_FILE' = STATE_FILE
               /\ METRICS' = METRICS /\ METRICS_FILE' = METRICS_FILE
          ELSE /\ \A w \in Workers : resp'.token \notin DOMAIN SESSIONS[w]
               /\ resp'.token \notin DOMAIN STATE_FILE
               /\ DOMAIN SESSIONS'[resp'.worker] =
                      DOMAIN SESSIONS[resp'.worker] \cup {resp'.token}
               /\ \A w \in Workers \ {resp'.worker} : SESSIONS'[w] = SESSIONS[w]
               /\ \A w \in Workers : Kept(SESSIONS[w], SESSIONS'[w])
               /\ Kept(STATE_FILE, STATE_FILE')
               /\ \A s \in StoredSessions : ~is_expired(s, now) => ~is_expired(s, now')]_vars

(***************************************************************************)
(* Properties of a license that was switched off in passing                *)
(***************************************************************************)
\* the step is a request to a feature-gated route that has been answered
GatedAnswered == resp'.op = "gated" /\ resp' # resp

\* C30: the passive flip is sticky. While the stored license_active is
\* false, every login with the company's code is answered 403 and every
\* gated request that gets past the validation of its token is answered 403,
\* wherever current_period_end stands; an update of the company that does
\* not carry active = true leaves the flag false; and the flag goes back to
\* true only in a successful admin_update_company or admin_create_payment.
C30_FlipIsSticky ==
    [][/\ ~DBCompany.license_active =>
              /\ (LoginAnswered /\ lower(strip(resp'.payload.company_code)) = lower(DBCompany.code))
                     => resp'.status = 403
              /\ GatedAnswered => resp'.status \in {401, 403}
              /\ \A p \in RenewalPayloads :
                     p.active # Some(TRUE) => ~update_company(DBCompany, p).license_active
       /\ (~DBCompany.license_active /\ DBCompany'.license_active) =>
              /\ resp'.op \in {"admin_update_company", "admin_create_payment"}
              /\ resp'.status = 200]_vars

\* C30 witness: the flag is off, an administrator has moved the period end
\* into the future, and a user's login has just been refused for the license
C30_RefusedAfterRenewal ==
    /\ ~DBCompany.license_active
    /\ DBCompany.license_current_period_end = EndLate
    /\ now < DBCompany.license_current_period_end
    /\ resp.op = "login" /\ resp.status = 403
    /\ resp.detail = "License inactive or expired"
====
